---- MODULE Spec2Model ----
(***************************************************************************)
(* Model of banks_project.py: the ETL pipeline driver main() and the       *)
(* functions it sequences (fetch_html, extract_table, extract,             *)
(* transform_market_cap, load_to_csv, load_to_db, run_query).              *)
(*                                                                         *)
(* Numbers are fixed-point: a numeric cell or rate holds hundredths        *)
(* (100.0 is 10000, the rate 0.93 is 93), below 2^31 / 100.  A cell is a   *)
(* record [t, v]:                                                          *)
(* t = "num" a number, t = "str" a text, t = "numstr" a text made of       *)
(* digits that pandas kept as a Python str (object column).                *)
(***************************************************************************)
EXTENDS Integers, Sequences, FiniteSets, TLC

VARIABLES
    pc,       \* position of main(), or of the caller of transform_market_cap
    rates,    \* exchange_rates: sequence of [cur, rate] in dict iteration order
    html,     \* markup returned by fetch_html, in scope while extract() runs
    df,       \* the DataFrame main holds (None before / after a failed extract)
    dfIn,     \* the table as it was when transform_market_cap was last called
    err,      \* type of the last exception raised in this run ("none" if none)
    file,     \* content of ./Largest_banks_data.csv
    store,    \* content of table Largest_banks in Banks.db
    conn,     \* the sqlite3 connection of main: "none", "open", "closed"
    log,      \* logging records of this run, oldest first
    stages,   \* stages started in this run, oldest first: [name, ok]
    file0,    \* file as it was when the current run started
    store0,   \* store as it was when the current run started
    calls     \* number of calls of transform_market_cap made by the caller

vars == <<pc, rates, html, df, dfIn, err, file, store, conn, log, stages,
          file0, store0, calls>>

----------------------------------------------------------------------------
(* Bounds *)

MaxElems == 3      \* elements in a fetched document
MaxCalls == 2      \* repeated calls of transform_market_cap on its own output
MaxRates == 2      \* entries of an exchange-rate map

----------------------------------------------------------------------------
(* Data *)

anchor == "By market capitalization"
source_column == "Market cap (US$ billion)"
bank_name == "Bank name"

Num(n) == [t |-> "num", v |-> n]
Str(i) == [t |-> "str", v |-> i]

Table(c, r) == [kind |-> "table", cols |-> c, rows |-> r]
None == [kind |-> "none", cols |-> <<>>, rows |-> <<>>]

Range(s) == {s[i] : i \in DOMAIN s}
HasCol(t, c) == \E j \in DOMAIN t.cols : t.cols[j] = c
ColIndex(t, c) == CHOOSE j \in DOMAIN t.cols : t.cols[j] = c
Column(t, c) == [i \in DOMAIN t.rows |-> t.rows[i][ColIndex(t, c)]]

\* Variant of SetColumn: an existing column is dropped and added again at
\* the end (del df[c]; df[c] = vals).
SetColumnMoved(t, c, vals) ==
    LET keep == {j \in DOMAIN t.cols : t.cols[j] # c}
        Nth(n) == CHOOSE j \in keep : Cardinality({x \in keep : x < j}) = n - 1
    IN  Table([n \in 1..Cardinality(keep) |-> t.cols[Nth(n)]] \o <<c>>,
              [i \in DOMAIN t.rows |->
                  [n \in 1..Cardinality(keep) |-> t.rows[i][Nth(n)]] \o <<vals[i]>>])

\* df[c] = vals: an existing column is overwritten in place, a new one is
\* appended after the last column.
SetColumn(t, c, vals) ==
    IF HasCol(t, c)
    THEN Table(t.cols,
               [i \in DOMAIN t.rows |->
                   [t.rows[i] EXCEPT ![ColIndex(t, c)] = vals[i]]])
    ELSE Table(Append(t.cols, c),
               [i \in DOMAIN t.rows |-> Append(t.rows[i], vals[i])])

----------------------------------------------------------------------------
(* transform_market_cap *)

MCName(currency) == "MC_" \o currency \o "_Billion"

(* Python floats are IEEE 754 doubles.  x * rate multiplies the doubles    *)
(* nearest to the two decimals and rounds the product to 53 bits; round(v, *)
(* 2) then rounds the exact binary value of v to hundredths, ties to even. *)
(* The arithmetic is done on naturals written in base Base, least          *)
(* significant digit first, <<>> for zero.                                 *)

Base == 16384           \* 2^14: a digit times a digit stays in range
LimbBits == 14
MantissaBits == 53      \* significand of a double
Hundred == 100          \* cells and rates are held in hundredths
ScaleBits == 60         \* 2^60 / 100 > 2^53: the quotient has spare bits

RECURSIVE BigOfInt(_)
BigOfInt(n) == IF n = 0 THEN <<>> ELSE <<n % Base>> \o BigOfInt(n \div Base)

RECURSIVE IntOfBig(_)
IntOfBig(b) == IF b = <<>> THEN 0 ELSE b[1] + Base * IntOfBig(Tail(b))

RECURSIVE Trim(_)
Trim(b) ==
    IF b = <<>> THEN b
    ELSE IF b[Len(b)] = 0 THEN Trim(SubSeq(b, 1, Len(b) - 1)) ELSE b

\* b * k + carry, for k < 2^17
RECURSIVE MulSmall(_, _, _)
MulSmall(b, k, carry) ==
    IF b = <<>> THEN BigOfInt(carry)
    ELSE LET v == b[1] * k + carry
         IN  <<v % Base>> \o MulSmall(Tail(b), k, v \div Base)

RECURSIVE AddBig(_, _, _)
AddBig(a, b, carry) ==
    IF a = <<>> /\ b = <<>> THEN BigOfInt(carry)
    ELSE LET x == IF a = <<>> THEN 0 ELSE a[1]
             y == IF b = <<>> THEN 0 ELSE b[1]
             v == x + y + carry
         IN  <<v % Base>> \o AddBig(IF a = <<>> THEN a ELSE Tail(a),
                                    IF b = <<>> THEN b ELSE Tail(b),
                                    v \div Base)

Zeros(n) == [i \in 1..n |-> 0]

RECURSIVE MulBig(_, _)
MulBig(a, b) ==
    IF a = <<>> \/ b = <<>> THEN <<>>
    ELSE Trim(AddBig(MulSmall(b, a[1], 0),
                     LET rest == MulBig(Tail(a), b)
                     IN  IF rest = <<>> THEN rest ELSE <<0>> \o rest,
                     0))

\* floor(b / d) and b mod d, for d < 2^17, from the top digit down
RECURSIVE DivSmall(_, _)
DivSmall(b, d) ==
    IF b = <<>> THEN [q |-> <<>>, r |-> 0]
    ELSE LET hi == DivSmall(Tail(b), d)
             v == hi.r * Base + b[1]
         IN  [q |-> Trim(<<v \div d>> \o hi.q), r |-> v % d]

RECURSIVE SmallBitLen(_)
SmallBitLen(n) == IF n = 0 THEN 0 ELSE 1 + SmallBitLen(n \div 2)

BitLen(b) == IF b = <<>> THEN 0 ELSE LimbBits * (Len(b) - 1) + SmallBitLen(b[Len(b)])

\* b / 2^s rounded to the nearest natural, ties to even
ShiftRightRound(b, s) ==
    IF s = 0 THEN b
    ELSE LET limbs == (s - 1) \div LimbBits
             bits == s - limbs * LimbBits            \* 1..LimbBits
             low == SubSeq(b, 1, IF limbs < Len(b) THEN limbs ELSE Len(b))
             rest == IF limbs < Len(b) THEN SubSeq(b, limbs + 1, Len(b)) ELSE <<>>
             d == DivSmall(rest, 2^bits)
             half == 2^(bits - 1)
             halfbit == d.r >= half
             sticky == (d.r % half # 0) \/ (\E i \in DOMAIN low : low[i] # 0)
             odd == d.q # <<>> /\ d.q[1] % 2 = 1
         IN  IF halfbit /\ (sticky \/ odd) THEN Trim(AddBig(d.q, <<1>>, 0)) ELSE d.q

\* The double nearest to n / 100 as [m, e]: m * 2^e with m below 2^53 (or
\* equal to it after a carry).  The remainder of the division is kept as an
\* extra low bit, so that it takes part in the rounding.
ToDouble(n) ==
    IF n = 0 THEN [m |-> <<>>, e |-> 0]
    ELSE LET scaled == Zeros(ScaleBits \div LimbBits)
                          \o MulSmall(BigOfInt(n), 2^(ScaleBits % LimbBits), 0)
             d == DivSmall(Trim(scaled), Hundred)
             q2 == Trim(MulSmall(d.q, 2, IF d.r = 0 THEN 0 ELSE 1))
             s == BitLen(q2) - MantissaBits
         IN  [m |-> ShiftRightRound(q2, s), e |-> s - ScaleBits - 1]

\* a * b for doubles: the exact product rounded to 53 bits, ties to even
MulDouble(a, b) ==
    LET prod == MulBig(a.m, b.m)
        s == IF BitLen(prod) > MantissaBits THEN BitLen(prod) - MantissaBits ELSE 0
    IN  [m |-> ShiftRightRound(prod, s), e |-> a.e + b.e + s]

\* round(v, 2) in hundredths: the exact value of the double v times 100,
\* rounded to the nearest natural, ties to even.
RoundHundredths(v) ==
    LET n == Trim(MulSmall(v.m, Hundred, 0))
    IN  IF v.e >= 0 THEN IntOfBig(n) * 2^v.e
        ELSE IntOfBig(ShiftRightRound(n, 0 - v.e))

\* round(x * rate, 2) for x and rate given in hundredths, in hundredths
Round2(x, rate) == RoundHundredths(MulDouble(ToDouble(x), ToDouble(rate)))

\* x * rate raises TypeError unless both are numbers (a str times a float).
Multiplies(x, rate) == x.t = "num" /\ rate.t = "num"

Converted(x, rate) == Num(Round2(x.v, rate.v))

\* The loop of transform_market_cap from entry k of the rate map on.  The
\* table is mutated in place, so the caller sees every column assigned
\* before an exception.
RECURSIVE TransformFrom(_, _, _)
TransformFrom(t, rs, k) ==
    IF k > Len(rs) THEN [raised |-> "none", df |-> t]
    ELSE IF ~HasCol(t, source_column) THEN [raised |-> "KeyError", df |-> t]
    ELSE LET src == Column(t, source_column) IN
         IF \E i \in DOMAIN src : ~Multiplies(src[i], rs[k].rate)
         THEN [raised |-> "TypeError", df |-> t]
         ELSE TransformFrom(
                  SetColumn(t, MCName(rs[k].cur),
                            [i \in DOMAIN src |-> Converted(src[i], rs[k].rate)]),
                  rs, k + 1)

transform_market_cap(t, rs) == TransformFrom(t, rs, 1)

----------------------------------------------------------------------------
(* extract_table *)

\* An element of the parsed document: its tag, its text (get_text), its
\* Tag.string, and for a <table> its header cells (the leading row of <th>)
\* and its other rows.  Tag.string is the single text child of the element
\* and None (NoString) when the element has more than one child.
NoString == "<None>"

\* <span>text</span>
Span(text) ==
    [tag |-> "span", text |-> text, string |-> text, head |-> <<>>, body |-> <<>>]

\* <span>te<i>xt</i></span>: the same text in more than one child
SpanMixed(text) ==
    [tag |-> "span", text |-> text, string |-> NoString, head |-> <<>>, body |-> <<>>]

\* <h2>text</h2>
H2(text) ==
    [tag |-> "h2", text |-> text, string |-> text, head |-> <<>>, body |-> <<>>]

HtmlTable(head, body) ==
    [tag |-> "table", text |-> "", string |-> NoString, head |-> head, body |-> body]

\* pd.read_html on one <table>: a table without any row is "No tables
\* found" (ValueError).
Convertible(e) == e.tag = "table" /\ (e.head # <<>> \/ e.body # <<>>)

NumericColumn(e, j) == \A i \in DOMAIN e.body : e.body[i][j].t = "num"

\* The integer column labels 0, 1, 2, ... pandas gives a table that has no
\* header row, written as strings like every other column name.
IntLabel(j) == <<"0", "1", "2", "3", "4", "5", "6", "7">>[j]

Width(e) == IF e.head # <<>> THEN Len(e.head) ELSE Len(e.body[1])

Columns(e) == IF e.head # <<>> THEN e.head ELSE [j \in 1..Width(e) |-> IntLabel(j)]

\* The frame of one <table>: the header cells name the columns (integer
\* labels without a header row), every other row is data.  A column whose
\* cells all parse as numbers is numeric; in any other column every cell
\* stays a str.
read_html(e) ==
    Table(Columns(e),
          [i \in DOMAIN e.body |->
              [j \in 1..Width(e) |->
                  IF NumericColumn(e, j) THEN e.body[i][j]
                  ELSE IF e.body[i][j].t = "num"
                       THEN [t |-> "numstr", v |-> e.body[i][j].v]
                       ELSE e.body[i][j]]])

Min(S) == CHOOSE x \in S : \A y \in S : x <= y

\* Variant of extract_table: without a matching span the search for the
\* table starts at the top of the document.
extract_table_fallback(doc, table_attribs) ==
    LET spans == {i \in DOMAIN doc :
                     doc[i].tag = "span" /\ doc[i].string = table_attribs}
        from == IF spans = {} THEN 0 ELSE Min(spans)
        tables == {i \in DOMAIN doc : i > from /\ doc[i].tag = "table"}
    IN  IF tables = {} \/ ~Convertible(doc[Min(tables)])
        THEN [raised |-> "Exception", df |-> None]
        ELSE [raised |-> "none", df |-> read_html(doc[Min(tables)])]

\* Variant of extract_table: soup.find('table') in place of
\* find_next('table'), the first table of the document.
extract_table_first(doc, table_attribs) ==
    LET spans == {i \in DOMAIN doc :
                     doc[i].tag = "span" /\ doc[i].string = table_attribs}
        tables == {i \in DOMAIN doc : doc[i].tag = "table"}
    IN  IF spans = {} THEN [raised |-> "AttributeError", df |-> None]
        ELSE IF tables = {} \/ ~Convertible(doc[Min(tables)])
             THEN [raised |-> "Exception", df |-> None]
             ELSE [raised |-> "none", df |-> read_html(doc[Min(tables)])]

\* soup.find('span', string=table_attribs).find_next('table'), then
\* pd.read_html(str(table))[0].
extract_table(doc, table_attribs) ==
    LET spans == {i \in DOMAIN doc :
                     doc[i].tag = "span" /\ doc[i].string = table_attribs}
    IN  IF spans = {} THEN [raised |-> "AttributeError", df |-> None]
        ELSE LET tables == {i \in DOMAIN doc :
                               i > Min(spans) /\ doc[i].tag = "table"}
             IN  IF tables = {} THEN [raised |-> "Exception", df |-> None]
                 ELSE IF ~Convertible(doc[Min(tables)])
                      THEN [raised |-> "Exception", df |-> None]
                      ELSE [raised |-> "none", df |-> read_html(doc[Min(tables)])]

----------------------------------------------------------------------------
(* Sink *)

\* df.to_csv(path, index=False): a header line and one line per row; the
\* text of a cell no longer tells a number from a str made of digits.
Render(cell) == IF cell.t = "str" THEN <<"text", cell.v>> ELSE <<"digits", cell.v>>

to_csv(t) ==
    [kind |-> "csv", cols |-> t.cols,
     rows |-> [i \in DOMAIN t.rows |->
                  [j \in DOMAIN t.rows[i] |-> Render(t.rows[i][j])]]]

\* Variant of to_sql: if_exists='append', the rows are added to the table
\* that is there.
to_sql_append(old, t) ==
    IF old.kind = "table" THEN Table(old.cols, old.rows \o t.rows)
    ELSE Table(t.cols, t.rows)

\* df.to_sql(table_name, conn, if_exists='replace', index=False): the old
\* table is dropped and a new one created from the frame's schema and rows.
to_sql(old, t) == Table(t.cols, t.rows)

\* The three fixed queries of main; the second reads column MC_GBP_Billion.
\* sqlite3 raises OperationalError for a column the table does not have.
QueryColumnsExist(k, t) == k # 2 \/ HasCol(t, MCName("GBP"))

----------------------------------------------------------------------------
(* Inputs of the pipeline *)

OK1 == HtmlTable(<<bank_name, source_column>>,
                 <<<<Str(1), Num(10000)>>, <<Str(2), Num(5025)>>>>)
OK2 == HtmlTable(<<"Rank", bank_name, source_column>>,
                 <<<<Num(100), Str(3), Num(20050)>>>>)
NonNumeric == HtmlTable(<<bank_name, source_column>>,
                        <<<<Str(1), Num(10000)>>, <<Str(2), Str(4)>>>>)
NoHeader == HtmlTable(<<>>, <<<<Str(5), Num(30000)>>, <<Str(6), Num(1250)>>>>)
EmptyTable == HtmlTable(<<>>, <<>>)

Elements == {Span(anchor), SpanMixed(anchor), Span("Notes"), H2(anchor),
             OK1, OK2, NonNumeric, NoHeader, EmptyTable}

SeqsUpTo(S, n) == UNION {[1..k -> S] : k \in 0..n}

Documents == SeqsUpTo(Elements, MaxElems)

\* exchange_rate.csv as read at startup: one float rate per currency.
RateOf(cur) == IF cur = "EUR" THEN Num(93) ELSE Num(80)

RateFiles == {<<"EUR", "GBP">>, <<"EUR">>}

read_csv(curs) == [k \in DOMAIN curs |-> [cur |-> curs[k], rate |-> RateOf(curs[k])]]

Info(msg) == [level |-> "INFO", msg |-> msg]
Error(msg) == [level |-> "ERROR", msg |-> msg]
Stage(name, ok) == [name |-> name, ok |-> ok]

----------------------------------------------------------------------------
(* main *)

Init ==
    /\ pc = "fetch"
    /\ rates \in {read_csv(f) : f \in RateFiles}
    /\ html = <<>>
    /\ df = None
    /\ dfIn = None
    /\ err = "none"
    /\ file = None
    /\ store = None
    /\ conn = "none"
    /\ log = <<Info("Preliminaries complete. Initiating ETL process.")>>
    /\ stages = <<>>
    /\ file0 = None
    /\ store0 = None
    /\ calls = 0

\* extract(), line 64: fetch_html(url).  A failure is caught at line 68,
\* extract returns None and main skips to its last statement.
FetchHtml ==
    /\ pc = "fetch"
    /\ \/ \E doc \in Documents :
             /\ html' = doc
             /\ stages' = Append(stages, Stage("fetch", TRUE))
             /\ pc' = "extract_table"
             /\ UNCHANGED <<err, log, df>>
       \/ /\ err' = "Exception"
          /\ log' = Append(log, Error("Error during extraction"))
          /\ df' = None
          /\ stages' = Append(stages, Stage("fetch", FALSE))
          /\ pc' = "finish"
          /\ UNCHANGED html
    /\ UNCHANGED <<rates, dfIn, file, store, conn, file0, store0, calls>>

\* Variant of ExtractOutcome: main without the test "df is not None".
ExtractOutcomeUnchecked(r) ==
    /\ df' = r.df
    /\ pc' = "transform"
    /\ stages' = Append(stages, Stage("extract", r.raised = "none"))
    /\ IF r.raised = "none"
       THEN /\ log' = Append(log, Info("Data extraction complete. Initiating Transformation process."))
            /\ UNCHANGED err
       ELSE /\ err' = r.raised
            /\ log' = Append(log, Error("Error during extraction"))

\* What main does with the outcome r of extract_table (lines 65-70, 142-143).
ExtractOutcome(r) ==
    IF r.raised = "none"
    THEN /\ df' = r.df
         /\ log' = Append(log, Info("Data extraction complete. Initiating Transformation process."))
         /\ stages' = Append(stages, Stage("extract", TRUE))
         /\ pc' = "transform"
         /\ UNCHANGED err
    ELSE /\ df' = None
         /\ err' = r.raised
         /\ log' = Append(log, Error("Error during extraction"))
         /\ stages' = Append(stages, Stage("extract", FALSE))
         /\ pc' = "finish"

ExtractTable ==
    /\ pc = "extract_table"
    /\ ExtractOutcome(extract_table(html, anchor))
    /\ UNCHANGED <<rates, html, dfIn, file, store, conn, file0, store0, calls>>

\* Variant of TransformOutcome: main catches the error of the transform,
\* logs it and goes on to the writes.
TransformOutcomeCaught(r) ==
    /\ df' = r.df
    /\ stages' = Append(stages, Stage("transform", r.raised = "none"))
    /\ pc' = "load_to_csv"
    /\ IF r.raised = "none"
       THEN /\ log' = Append(log, Info("Data transformation complete. Initiating Loading process."))
            /\ UNCHANGED err
       ELSE /\ err' = r.raised
            /\ log' = Append(log, Error("Error during transformation"))

\* What main does with the outcome r of transform_market_cap (line 144).
TransformOutcome(r) ==
    /\ df' = r.df
    /\ IF r.raised = "none"
       THEN /\ log' = Append(log, Info("Data transformation complete. Initiating Loading process."))
            /\ stages' = Append(stages, Stage("transform", TRUE))
            /\ pc' = "load_to_csv"
            /\ UNCHANGED err
       ELSE /\ err' = r.raised
            /\ stages' = Append(stages, Stage("transform", FALSE))
            /\ pc' = "raised"
            /\ UNCHANGED log

Transform ==
    /\ pc = "transform"
    /\ dfIn' = df
    /\ html' = <<>>
    /\ TransformOutcome(transform_market_cap(df, rates))
    /\ UNCHANGED <<rates, file, store, conn, file0, store0, calls>>

\* line 145.  A call of df.to_csv that raises is taken to leave the file as
\* it was (the path cannot be opened for writing).
LoadToCsv ==
    /\ pc = "load_to_csv"
    /\ \E ok \in BOOLEAN :
          /\ file' = IF ok THEN to_csv(df) ELSE file
          /\ stages' = Append(stages, Stage("load_to_csv", ok))
          /\ IF ok
             THEN /\ log' = Append(log, Info("Data saved to CSV file."))
                  /\ pc' = "connect"
                  /\ UNCHANGED err
             ELSE /\ err' = "OSError"
                  /\ pc' = "raised"
                  /\ UNCHANGED log
    /\ UNCHANGED <<rates, html, df, dfIn, store, conn, file0, store0, calls>>

\* line 147: sqlite3.connect(database_name) and entry of the with block.
Connect ==
    /\ pc = "connect"
    /\ \E ok \in BOOLEAN :
          /\ stages' = Append(stages, Stage("connect", ok))
          /\ IF ok
             THEN /\ conn' = "open"
                  /\ pc' = "load_to_db"
                  /\ UNCHANGED err
             ELSE /\ err' = "OperationalError"
                  /\ pc' = "raised"
                  /\ UNCHANGED conn
    /\ UNCHANGED <<rates, html, df, dfIn, file, store, log, file0, store0, calls>>

\* Connection.__exit__ of the with block at line 147: it commits or rolls
\* back and returns; it does not close the connection, and it does not
\* swallow the exception.
WithExit(c) == c

\* line 148.  A call of df.to_sql that raises is taken to leave the table
\* as it was (the database is locked or read-only).
LoadToDb ==
    /\ pc = "load_to_db"
    /\ \E ok \in BOOLEAN :
          /\ store' = IF ok THEN to_sql(store, df) ELSE store
          /\ stages' = Append(stages, Stage("load_to_db", ok))
          /\ IF ok
             THEN /\ log' = Append(log, Info("Data loaded to Database as a table, Executing queries."))
                  /\ pc' = "query1"
                  /\ UNCHANGED <<err, conn>>
             ELSE /\ err' = "DatabaseError"
                  /\ conn' = WithExit(conn)
                  /\ pc' = "raised"
                  /\ UNCHANGED log
    /\ UNCHANGED <<rates, html, df, dfIn, file, file0, store0, calls>>

QueryPc(k) == CASE k = 1 -> "query1" [] k = 2 -> "query2" [] k = 3 -> "query3"
QueryName(k) == QueryPc(k)
AfterQuery(k) == CASE k = 1 -> "query2" [] k = 2 -> "query3" [] k = 3 -> "finish"

\* lines 149-151: print(run_query(q, conn)) for the k-th query.
RunQuery(k) ==
    /\ pc = QueryPc(k)
    /\ \E ok \in {b \in BOOLEAN : b => QueryColumnsExist(k, store)} :
          /\ stages' = Append(stages, Stage(QueryName(k), ok))
          /\ IF ok
             THEN /\ log' = Append(log, Info("Query executed successfully."))
                  /\ pc' = AfterQuery(k)
                  /\ conn' = IF k = 3 THEN WithExit(conn) ELSE conn
                  /\ UNCHANGED err
             ELSE /\ err' = "OperationalError"
                  /\ conn' = WithExit(conn)
                  /\ pc' = "raised"
                  /\ UNCHANGED log
    /\ UNCHANGED <<rates, html, df, dfIn, file, store, file0, store0, calls>>

\* line 153: the last statement of main, reached after the with block and
\* after a failed extract alike; main then returns normally (exit status 0).
Finish ==
    /\ pc = "finish"
    /\ log' = Append(log, Info("Process completed."))
    /\ html' = <<>>
    /\ pc' = "done"
    /\ UNCHANGED <<rates, df, dfIn, err, file, store, conn, stages, file0, store0, calls>>

\* The script is started again: a new process against the same file and
\* database (lines 132-140).
NextRun ==
    /\ pc \in {"done", "raised"}
    /\ pc' = "fetch"
    /\ rates' \in {read_csv(f) : f \in RateFiles}
    /\ html' = <<>>
    /\ df' = None
    /\ dfIn' = None
    /\ err' = "none"
    /\ conn' = "none"
    /\ log' = <<Info("Preliminaries complete. Initiating ETL process.")>>
    /\ stages' = <<>>
    /\ file0' = file
    /\ store0' = store
    /\ UNCHANGED <<file, store, calls>>

Next ==
    \/ FetchHtml
    \/ ExtractTable
    \/ Transform
    \/ LoadToCsv
    \/ Connect
    \/ LoadToDb
    \/ \E k \in 1..3 : RunQuery(k)
    \/ Finish
    \/ NextRun

Spec == Init /\ [][Next]_vars

----------------------------------------------------------------------------
(* transform_market_cap called directly, on any table and any dict *)

Currencies == {"EUR", "GBP", "INR"}
RateValues == {Num(93), Num(80), Str(0)}

RateMaps ==
    {m \in SeqsUpTo([cur : Currencies, rate : RateValues], MaxRates) :
        \A i, j \in DOMAIN m : i # j => m[i].cur # m[j].cur}

Frames ==
    { Table(<<bank_name, source_column>>,
            <<<<Str(1), Num(10000)>>, <<Str(2), Num(50)>>>>),
      Table(<<bank_name, "Total assets">>, <<<<Str(1), Num(10000)>>>>),
      Table(<<bank_name, source_column>>,
            <<<<Str(1), Num(10000)>>, <<Str(2), Str(4)>>>>),
      Table(<<source_column>>, <<>>),
      Table(<<MCName("EUR"), source_column, bank_name>>,
            <<<<Num(100), Num(10000), Str(1)>>>>),
      Table(<<source_column, MCName("GBP"), MCName("EUR")>>,
            <<<<Num(20050), Num(16040), Num(7)>>>>) }

TInit ==
    /\ pc = "call"
    /\ df \in Frames
    /\ rates \in RateMaps
    /\ dfIn = None
    /\ err = "none"
    /\ calls = 0
    /\ html = <<>>
    /\ file = None
    /\ store = None
    /\ conn = "none"
    /\ log = <<>>
    /\ stages = <<>>
    /\ file0 = None
    /\ store0 = None

\* df = transform_market_cap(df, rates), again on its own output while it
\* returns.
CallTransform ==
    /\ pc = "call"
    /\ calls < MaxCalls
    /\ LET r == transform_market_cap(df, rates) IN
          /\ dfIn' = df
          /\ df' = r.df
          /\ err' = r.raised
          /\ pc' = IF r.raised = "none" THEN "call" ELSE "call_raised"
    /\ calls' = calls + 1
    /\ UNCHANGED <<rates, html, file, store, conn, log, stages, file0, store0>>

TNext == CallTransform

SpecTransform == TInit /\ [][TNext]_vars

----------------------------------------------------------------------------
(* Properties of the pipeline (specification Spec) *)

Last(q) == q[Len(q)]
Failed(name) == \E i \in DOMAIN stages : stages[i] = Stage(name, FALSE)
Succeeded(name) == \E i \in DOMAIN stages : stages[i] = Stage(name, TRUE)
ExtractFailed == Failed("fetch") \/ Failed("extract")
RunFailed == \E i \in DOMAIN stages : ~stages[i].ok
IsStage(s) == s.name # "connect"
StageFailed == \E i \in DOMAIN stages : IsStage(stages[i]) /\ ~stages[i].ok
ErrorLogged == \E i \in DOMAIN log : log[i].level = "ERROR"

\* C1: when fetch_html or extract_table fails, the failure is logged and no
\* later stage is attempted in that run: the file and the store table are as
\* they were when the run started and no connection was opened.
C1_ShortCircuit ==
    ExtractFailed =>
        /\ ErrorLogged
        /\ \A i \in DOMAIN stages : stages[i].name \in {"fetch", "extract"}
        /\ pc \in {"finish", "done"}
        /\ file = file0
        /\ store = store0
        /\ conn = "none"

C1_Witness ==
    /\ pc = "done"
    /\ Failed("extract")
    /\ err = "AttributeError"
    /\ store0.kind = "table"
    /\ file0.kind = "csv"

\* C2: a run ends with success status only when every stage completed and
\* the three queries ran.
C2_SuccessOnlyWhenComplete ==
    pc = "done" => (~RunFailed /\ Succeeded("query3"))

\* C5: once the driver has left the write+query stages, on the normal path
\* and on every failing one, a connection it opened is closed.
C5_ConnectionReleased ==
    pc \in {"finish", "done", "raised"} => conn # "open"

\* The state right after extract_table ran on the fetched markup.
Extracted == Len(stages) = 2 /\ pc \in {"transform", "finish"}
AnchorAbsent == \A i \in DOMAIN html : html[i].text # anchor

\* C6: for markup in which no element's text equals the anchor text,
\* extract_table raises and extract logs the error and returns None, never
\* a table.
C6_MissingAnchor ==
    (Extracted /\ AnchorAbsent) =>
        /\ pc = "finish"
        /\ df = None
        /\ err = "AttributeError"
        /\ stages[2] = Stage("extract", FALSE)
        /\ Last(log).level = "ERROR"

C6_Witness ==
    /\ Extracted
    /\ AnchorAbsent
    /\ df = None
    /\ \E i, j \in DOMAIN html :
          /\ i < j
          /\ html[i].tag = "span"
          /\ Convertible(html[j])

\* C7: after a successful load_to_db the store table has exactly the schema
\* and rows of the table written in this run (one row per extracted entry,
\* the original columns and one derived column per currency), whatever an
\* earlier run left there, and writing that table once more changes nothing.
C7_Replace ==
    Succeeded("load_to_db") =>
        /\ store.kind = "table"
        /\ store.cols = df.cols
        /\ store.rows = df.rows
        /\ Len(store.rows) = Len(dfIn.rows)
        /\ Range(store.cols) =
              Range(dfIn.cols) \cup {MCName(rates[k].cur) : k \in DOMAIN rates}
        /\ to_sql(store, df) = store

C7_Witness ==
    /\ pc = "done"
    /\ Succeeded("load_to_db")
    /\ store0.kind = "table"
    /\ Len(store0.rows) # Len(store.rows)
    /\ \E c \in Range(store0.cols) : c \notin Range(store.cols)

\* C8: a run that fails at any stage has produced or changed neither output:
\* the CSV file and the store table are as they were when the run started.
C8_NoPartialOutput ==
    StageFailed => (file = file0 /\ store = store0)

\* C9: markup with an element of any tag whose text is the anchor text,
\* followed by a table-like structure: extract_table returns the table built
\* from the first such structure after the first matching element.
C9_AnyTag ==
    LET matches == {i \in DOMAIN html : html[i].text = anchor}
        after == {j \in DOMAIN html : j > Min(matches) /\ Convertible(html[j])}
    IN  (Extracted /\ matches # {} /\ after # {}) =>
            /\ pc = "transform"
            /\ df.kind = "table"
            /\ df.cols = html[Min(after)].head
            /\ Len(df.rows) = Len(html[Min(after)].body)

\* C9 as amended: markup with a span whose Tag.string (its single text
\* child) is the anchor text, where the first table element after the first
\* such span has at least one data row, all rows having as many cells:
\* extract_table returns the table built from that element, one row per
\* non-header row, cell for cell; with a header row the columns are the
\* header cells, without one there is a column per cell of a row, labelled
\* 0, 1, 2, ...
C9_FirstSpan ==
    LET matches == {i \in DOMAIN html :
                       html[i].tag = "span" /\ html[i].string = anchor}
        after == {j \in DOMAIN html : j > Min(matches) /\ html[j].tag = "table"}
        t == html[Min(after)]
    IN  (Extracted /\ matches # {} /\ after # {} /\ t.body # <<>>) =>
            /\ pc = "transform"
            /\ df.kind = "table"
            /\ Len(df.rows) = Len(t.body)
            /\ \A i \in DOMAIN df.rows :
                  /\ Len(df.rows[i]) = Len(df.cols)
                  /\ \A j \in DOMAIN df.cols : df.rows[i][j].v = t.body[i][j].v
            /\ IF t.head # <<>>
               THEN /\ df.cols = t.head
                    /\ Len(df.cols) = Len(t.head)
               ELSE /\ Len(df.cols) = Len(t.body[1])
                    /\ \A j \in DOMAIN df.cols : df.cols[j] = IntLabel(j)

\* The span with a single text child is the anchor although a span with the
\* same text in several children precedes it; the table has no header row.
C9_Witness ==
    /\ Extracted
    /\ pc = "transform"
    /\ Len(html) = 3
    /\ html[1] = SpanMixed(anchor)
    /\ html[2] = Span(anchor)
    /\ html[3] = NoHeader
    /\ df.cols = <<"0", "1">>
    /\ Len(df.rows) = 2

Order == <<"fetch", "extract", "transform", "load_to_csv", "load_to_db",
           "query1", "query2", "query3">>

\* C10: the stages of a run start in the fixed order, each only after every
\* earlier one succeeded; a failure of transform, of a write or of a query
\* is not caught: no later stage runs and the error leaves main; only a
\* failure of fetch or extract is caught.
C10_Order ==
    LET named == SelectSeq(stages, IsStage) IN
    /\ Len(named) <= Len(Order)
    /\ \A i \in DOMAIN named : named[i].name = Order[i]
    /\ \A i \in DOMAIN stages : i < Len(stages) => stages[i].ok
    /\ pc = "raised" <=>
          (stages # <<>> /\ ~Last(stages).ok
              /\ Last(stages).name \notin {"fetch", "extract"})
    /\ (stages # <<>> /\ ~Last(stages).ok
            /\ Last(stages).name \in {"fetch", "extract"})
          => pc \in {"finish", "done"}
    /\ Succeeded("query3") => pc \in {"finish", "done"}

C10_Witness ==
    /\ pc = "raised"
    /\ Len(stages) = 8
    /\ Last(stages) = Stage("query2", FALSE)
    /\ err = "OperationalError"

----------------------------------------------------------------------------
(* Properties of transform_market_cap (specification SpecTransform) *)

DerivedNames == {MCName(rates[k].cur) : k \in DOMAIN rates}
IsNewName(c) == ~HasCol(dfIn, c)
NewNames == SelectSeq([k \in DOMAIN rates |-> MCName(rates[k].cur)], IsNewName)
Returned == calls > 0 /\ err = "none"

\* C3: a call that fails leaves none of the new MC_<currency>_Billion
\* columns in the table the caller passed in; a call that succeeds leaves
\* all of them.
C3_AllOrNothing ==
    calls > 0 =>
        IF err # "none"
        THEN \A c \in DerivedNames : HasCol(df, c) => HasCol(dfIn, c)
        ELSE \A c \in DerivedNames : HasCol(df, c)

\* C4: a successful call leaves every column that existed before it (name,
\* position, each row value) and the row order unchanged and places the new
\* columns after them in the iteration order of the rate map.
C4_PreexistingUnchanged ==
    Returned =>
        /\ Len(df.rows) = Len(dfIn.rows)
        /\ \A j \in DOMAIN dfIn.cols :
              /\ df.cols[j] = dfIn.cols[j]
              /\ \A i \in DOMAIN dfIn.rows : df.rows[i][j] = dfIn.rows[i][j]
        /\ df.cols = dfIn.cols \o NewNames

\* C4 as amended: a successful call keeps the row order and the name and
\* position of every column that existed before it, and the values of each
\* of them that is not named MC_<currency>_Billion for a currency of the
\* map; such a column is overwritten where it stands with source * rate
\* rounded to a nearest hundredth; the derived columns that did not exist are appended in the
\* iteration order of the map; a call repeated on its own output changes
\* nothing.
C4_Frame ==
    Returned =>
        /\ Len(df.rows) = Len(dfIn.rows)
        /\ \A j \in DOMAIN dfIn.cols :
              /\ df.cols[j] = dfIn.cols[j]
              /\ dfIn.cols[j] \notin DerivedNames =>
                    \A i \in DOMAIN dfIn.rows : df.rows[i][j] = dfIn.rows[i][j]
              /\ dfIn.cols[j] \in DerivedNames =>
                    \A i \in DOMAIN dfIn.rows :
                       \E k \in DOMAIN rates :
                          /\ MCName(rates[k].cur) = dfIn.cols[j]
                          /\ df.rows[i][j].t = "num"
                          /\ LET p == Column(dfIn, source_column)[i].v * rates[k].rate.v
                                 d == 100 * df.rows[i][j].v - p
                             IN  d <= 50 /\ 0 - d <= 50
        /\ df.cols = dfIn.cols \o NewNames
        /\ calls >= 2 => df = dfIn

C4_Witness ==
    /\ Returned
    /\ calls = 1
    /\ Len(rates) = 2
    /\ Len(df.rows) > 0
    /\ \E c \in DerivedNames : HasCol(dfIn, c) /\ Column(df, c) # Column(dfIn, c)
    /\ \E c \in DerivedNames : ~HasCol(dfIn, c)

====
